---- MODULE Spec2Model ----
(***************************************************************************)
(* A model of the session / request-authentication core of ParaClient      *)
(* (the JavaScript client for Para): the token fields, the choice of the   *)
(* authentication mechanism in invokeSignedRequest, the silent token       *)
(* refresh and the sign-in / revoke round trips.                           *)
(*                                                                         *)
(* JavaScript values are records tagged by k: null, undefined, numbers and *)
(* strings.  Header maps are sets of <<name, value>> pairs.  Paths are     *)
(* sequences of segments: <<"app", "jwt_auth">> is "/app/jwt_auth".        *)
(* The clock and the server's expires/refresh values are in milliseconds;  *)
(* the exp/refresh fields of a token payload are whatever the payload      *)
(* holds (epoch seconds on the wire).                                      *)
(*                                                                         *)
(* The second part models the request signer (AWS4Signer) in header mode   *)
(* with its cache of derived keys, and the way invokeSignedRequest builds  *)
(* the request it hands to the signer.  Spec runs the client, SignerSpec   *)
(* runs signings; requests always name their host, so createHost is not    *)
(* reached, and query-mode signing (signQuery) is not modelled.            *)
(*                                                                         *)
(* Three further specifications run the same client with other            *)
(* operations: DataSpec the data operations (create, read, the batch       *)
(* operations, list), RaceSpec a caller that lets requests overlap while a *)
(* refresh is eligible, KeysSpec newKeys and grantResourcePermission.      *)
(***************************************************************************)
EXTENDS Integers, Sequences, FiniteSets, Bags, TLC

VARIABLES
    accessKey,            \* constructor argument accessKey (closure variable)
    secret,               \* closure variable secret (setSecret changes it)
    apiPath,              \* this.apiPath, as the sequence of its segments
    tokenKey,             \* this.tokenKey
    tokenKeyExpires,      \* this.tokenKeyExpires
    tokenKeyNextRefresh,  \* this.tokenKeyNextRefresh
    now,                  \* the clock read by new Date().getTime()
    inflight,             \* bag of requests awaiting their response
    sent,                 \* requests dispatched by the last step, in order
    ret,                  \* what the last step returned or settled with
    credentialsCache,     \* the signer's cache of derived keys
    derived,              \* the tuples the signer has derived a key for
    signedOut             \* the last signing: its input and its outcome

vars == <<accessKey, secret, apiPath, tokenKey, tokenKeyExpires,
          tokenKeyNextRefresh, now, inflight, sent, ret,
          credentialsCache, derived, signedOut>>

session == <<tokenKey, tokenKeyExpires, tokenKeyNextRefresh>>
config == <<accessKey, secret, apiPath>>
signer == <<credentialsCache, derived, signedOut>>

----------------------------------------------------------------------------
(* JavaScript values *)

Null == [k |-> "null"]
Undefined == [k |-> "undefined"]
Num(n) == [k |-> "num", v |-> n]
Str(s) == [k |-> "str", v |-> s]

\* ToBoolean
Truthy(x) ==
    CASE x.k = "null" -> FALSE
      [] x.k = "undefined" -> FALSE
      [] x.k = "num" -> x.v # 0
      [] x.k = "str" -> x.v # ""
      [] OTHER -> TRUE

\* a > b on JavaScript values: null converts to 0, undefined to NaN
IsNumeric(x) == x.k \in {"num", "null"}
ToNumber(x) == IF x.k = "num" THEN x.v ELSE 0
JsGt(a, b) == IsNumeric(a) /\ IsNumeric(b) /\ ToNumber(a) > ToNumber(b)
JsLt(a, b) == JsGt(b, a)

----------------------------------------------------------------------------
(* Bounds *)

MaxTicks == 2        \* clock steps taken by the model
MaxInFlight == 2     \* requests awaiting a response at once
StackLimit == 4      \* nested calls before the engine's call stack overflows
MaxOverlap == 4      \* requests awaiting a response at once, for a caller that overlaps them

TickMs == 1000
StartTime == 1000
MaxNow == StartTime + MaxTicks * TickMs

----------------------------------------------------------------------------
(* Tokens.  A token is a string; split, decode and JSON.parse are the       *)
(* library functions the code calls, tabulated on the tokens of the model.  *)

TokShort == "x"                                   \* one character
TokOpaque == "opaque-token"                       \* no dot at all
TokBadB64 == "h.%%%.s"                            \* no base64 character
TokBadJson == "h.bm90IGpzb24.s"                   \* payload: not json
TokNoExp == "h.eyJzdWIiOiJ1MSJ9.s"                \* payload: {"sub":"u1"}
TokA == "h.eyJleHAiOjQsInJlZnJlc2giOjJ9.s"        \* payload: {"exp":4,"refresh":2}
TokB == "h.eyJleHAiOjN9.s"                        \* payload: {"exp":3}

Tokens == {TokShort, TokOpaque, TokBadB64, TokBadJson, TokNoExp, TokA, TokB}

\* token.length
length(s) ==
    CASE s = TokShort -> 1
      [] s = TokOpaque -> 12
      [] s = TokBadB64 -> 7
      [] s = TokBadJson -> 15
      [] s = TokNoExp -> 20
      [] s = TokA -> 32
      [] s = TokB -> 16

\* token.split(".")
split(s) ==
    CASE s = TokShort -> <<"x">>
      [] s = TokOpaque -> <<"opaque-token">>
      [] s = TokBadB64 -> <<"h", "%%%", "s">>
      [] s = TokBadJson -> <<"h", "bm90IGpzb24", "s">>
      [] s = TokNoExp -> <<"h", "eyJzdWIiOiJ1MSJ9", "s">>
      [] s = TokA -> <<"h", "eyJleHAiOjQsInJlZnJlc2giOjJ9", "s">>
      [] s = TokB -> <<"h", "eyJleHAiOjN9", "s">>

\* decode(str): base64url to text; Buffer.from skips what is not base64
decode(seg) ==
    CASE seg = "%%%" -> ""
      [] seg = "bm90IGpzb24" -> "not json"
      [] seg = "eyJzdWIiOiJ1MSJ9" -> "{\"sub\":\"u1\"}"
      [] seg = "eyJleHAiOjQsInJlZnJlc2giOjJ9" -> "{\"exp\":4,\"refresh\":2}"
      [] seg = "eyJleHAiOjN9" -> "{\"exp\":3}"
      [] OTHER -> ""

\* JSON.parse(text): the parsed object, or a SyntaxError
Payload(exp, refresh) == [k |-> "obj", exp |-> exp, refresh |-> refresh]
ParseOk(v) == [threw |-> FALSE, value |-> v]
ParseError == [threw |-> TRUE, value |-> Undefined]
JSONparse(text) ==
    CASE text = "{\"sub\":\"u1\"}" -> ParseOk(Payload(Undefined, Undefined))
      [] text = "{\"exp\":4,\"refresh\":2}" -> ParseOk(Payload(Num(4), Num(2)))
      [] text = "{\"exp\":3}" -> ParseOk(Payload(Num(3), Undefined))
      [] OTHER -> ParseError

\* JSON.parse(decode(parts[1])): parts[1] is undefined when the token has
\* no dot, and decode then throws a TypeError
DecodeToken(s) ==
    LET parts == split(s)
    IN  IF Len(parts) < 2 THEN ParseError ELSE JSONparse(decode(parts[2]))

\* setAccessToken: the <<expires, nextRefresh>> it leaves, given those before
TokenFieldsAfterSet(token, exp0, ref0) ==
    IF Truthy(token) /\ length(token.v) > 1
    THEN LET decoded == DecodeToken(token.v)
         IN  IF decoded.threw
             THEN <<Null, Null>>
             ELSE IF Truthy(decoded.value) /\ Truthy(decoded.value.exp)
                  THEN <<decoded.value.exp, decoded.value.refresh>>
                  ELSE <<exp0, ref0>>
    ELSE <<exp0, ref0>>

----------------------------------------------------------------------------
(* Paths *)

JWT_PATH == <<"jwt_auth">>
DEFAULT_PATH == <<"v1">>
PrefixedPath == <<"app", "v1">>

\* the number of "/" in apiPath: one before each segment and the trailing one
SlashCount(path) == Len(path) + 1

\* getFullPath(resourcePath), for the token endpoint and for other resources
getFullPath(resourcePath) ==
    IF resourcePath # <<>> /\ Head(resourcePath) = Head(JWT_PATH)
    THEN IF SlashCount(apiPath) > 2
         THEN <<Head(apiPath)>> \o resourcePath
         ELSE resourcePath
    ELSE apiPath \o resourcePath

----------------------------------------------------------------------------
(* Authentication of a request *)

NoHeaders == {}
DeleteHeader(headers, name) == {h \in headers : h[1] # name}
SetHeader(headers, name, value) == DeleteHeader(headers, name) \cup {<<name, value>>}

\* the values of the Authorization header: "Anonymous <accessKey>",
\* "Bearer <token>" and the AWS4 signature made with a key and a secret
Anonymous(key) == [k |-> "anonymous", accessKey |-> key]
Bearer(token) == [k |-> "bearer", token |-> token]
Signature(key, sec) == [k |-> "aws4", accessKeyId |-> key, secretAccessKey |-> sec]

\* the access keys a client is constructed with
AccessKeys == {Str("app:para"), Null, Str(""), Str(" ")}

\* String.prototype.trim, on the strings given as access key
trim(str) == IF str = " " THEN "" ELSE str

\* a check of the access key that forgets to trim it
IsBlankUntrimmed(key) == ~Truthy(key)

\* accessKey.trim() is empty
IsBlank(key) == ~Truthy(key) \/ trim(key.v) = ""

\* AWS4Signer.prototype.sign, header mode: any Authorization header is
\* deleted and the computed one is set
sign(headers, key, sec) ==
    SetHeader(DeleteHeader(DeleteHeader(headers, "Authorization"), "authorization"),
              "Authorization", Signature(key, sec))

\* the anonymous branch of invokeSignedRequest: <<headers, doSign>>
AnonymousOrSign(headers) ==
    IF ~Truthy(secret) /\ ~Truthy(tokenKey) /\ headers = NoHeaders
    THEN <<{<<"Authorization", Anonymous(accessKey)>>}, FALSE>>
    ELSE <<headers, TRUE>>

\* the guard against refreshing on the refresh GET itself
IsRefreshRequest(httpMethod, reqPath) == httpMethod = "GET" /\ reqPath = JWT_PATH

\* CanRefreshNow without its test that a token is held
CanRefreshNowTokenUnchecked ==
    LET notExpired == tokenKeyExpires # Null /\ JsGt(tokenKeyExpires, Num(now))
        canRefresh == tokenKeyNextRefresh # Null /\
                      (JsLt(tokenKeyNextRefresh, Num(now)) \/
                       JsGt(tokenKeyNextRefresh, tokenKeyExpires))
    IN  notExpired /\ canRefresh

\* the condition under which refreshToken attempts a refresh
CanRefreshNow ==
    LET notExpired == tokenKeyExpires # Null /\ JsGt(tokenKeyExpires, Num(now))
        canRefresh == tokenKeyNextRefresh # Null /\
                      (JsLt(tokenKeyNextRefresh, Num(now)) \/
                       JsGt(tokenKeyNextRefresh, tokenKeyExpires))
    IN  tokenKey # Null /\ notExpired /\ canRefresh

\* AttachAuth with the secret-key signature tried before the bearer token
AttachAuthSecretFirst(httpMethod, reqPath, headers, doSign) ==
    IF doSign /\ Truthy(secret)
    THEN [method |-> httpMethod, path |-> reqPath, signed |-> TRUE,
          headers |-> sign(headers, accessKey, secret)]
    ELSE IF tokenKey # Null
         THEN [method |-> httpMethod, path |-> reqPath, signed |-> FALSE,
               headers |-> SetHeader(headers, "Authorization", Bearer(tokenKey))]
         ELSE [method |-> httpMethod, path |-> reqPath, signed |-> FALSE,
               headers |-> headers]

\* the bearer / signature branch of invokeSignedRequest: the request sent
AttachAuth(httpMethod, reqPath, headers, doSign) ==
    IF tokenKey # Null
    THEN [method |-> httpMethod, path |-> reqPath, signed |-> FALSE,
          headers |-> SetHeader(headers, "Authorization", Bearer(tokenKey))]
    ELSE IF doSign
         THEN [method |-> httpMethod, path |-> reqPath, signed |-> TRUE,
               headers |-> sign(headers, accessKey, secret)]
         ELSE [method |-> httpMethod, path |-> reqPath, signed |-> FALSE,
               headers |-> headers]

Threw(what, n) == [threw |-> what, out |-> <<>>, refreshCalls |-> n]

RECURSIVE invokeSignedRequest(_, _, _, _)
RECURSIVE refreshTokenCall(_)

\* invokeSignedRequest, with the nested calls it makes: what it throws, the
\* requests it dispatches (in order), and how often refreshToken was entered.
\* depth counts the frames on the call stack.
invokeSignedRequest(httpMethod, reqPath, headers, depth) ==
    IF depth > StackLimit THEN Threw("RangeError", 0)
    ELSE IF IsBlank(accessKey) THEN Threw("Error", 0)
    ELSE LET anon == AnonymousOrSign(headers)
             req == AttachAuth(httpMethod, reqPath, anon[1], anon[2])
         IN  IF tokenKey # Null /\ ~IsRefreshRequest(httpMethod, reqPath)
             THEN LET r == refreshTokenCall(depth + 1)
                  IN  IF r.threw # "none" THEN r
                      ELSE [threw |-> "none", out |-> r.out \o <<req>>,
                            refreshCalls |-> r.refreshCalls]
             ELSE [threw |-> "none", out |-> <<req>>, refreshCalls |-> 0]

\* refreshToken up to the dispatch of its GET: out is empty when no refresh
\* is attempted (the call then returns false)
refreshTokenCall(depth) ==
    IF depth > StackLimit THEN Threw("RangeError", 1)
    ELSE IF CanRefreshNow
         THEN LET r == invokeSignedRequest("GET", getFullPath(JWT_PATH), NoHeaders, depth + 1)
              IN  [threw |-> r.threw, out |-> r.out, refreshCalls |-> r.refreshCalls + 1]
         ELSE [threw |-> "none", out |-> <<>>, refreshCalls |-> 1]

----------------------------------------------------------------------------
(* Responses of the server, as superagent hands them to getEntity *)

User == [k |-> "obj", id |-> "u1"]
JwtData(token, expires, refresh) ==
    [k |-> "obj", access_token |-> Str(token), expires |-> expires, refresh |-> refresh]
Body(user, jwt) == [k |-> "obj", user |-> user, jwt |-> jwt]
EmptyBody == Body(Undefined, Undefined)

\* the jwt objects the server answers with: refresh before expires, refresh
\* after expires, and one that carries no timestamps
JwtDatas ==
    { JwtData(TokA, Num(StartTime + 3 * TickMs), Num(StartTime + TickMs)),
      JwtData(TokB, Num(StartTime + 2 * TickMs), Num(StartTime + 4 * TickMs)),
      JwtData(TokB, Undefined, Undefined) }

Bodies ==
    {Body(User, j) : j \in JwtDatas} \cup {Body(User, Undefined), EmptyBody}

NoResp == [err |-> FALSE, status |-> 0, body |-> Undefined]
TransportError == [err |-> TRUE, status |-> 0, body |-> Undefined]
Responses ==
    {TransportError}
    \cup {[err |-> FALSE, status |-> 200, body |-> b] : b \in Bodies}
    \cup {[err |-> FALSE, status |-> c, body |-> EmptyBody] : c \in {204, 304, 400}}

\* result["name"]
Field(x, name) == IF x.k = "obj" /\ name \in DOMAIN x THEN x[name] ELSE Undefined

\* getEntity: how the promise settles for a response, and with what
getEntity(resp) ==
    IF resp.err THEN [settle |-> "reject", value |-> Undefined]
    ELSE IF resp.status \in {200, 201, 304}
         THEN [settle |-> "resolve", value |-> resp.body]
         ELSE [settle |-> "reject", value |-> resp.body]

\* the test both signIn and refreshToken apply to a resolved result
HasUserAndJwt(result) ==
    result # Null /\ Truthy(Field(result, "user")) /\ Truthy(Field(result, "jwt"))

----------------------------------------------------------------------------
(* The state machine *)

Pending(op, remember) == [op |-> op, remember |-> remember]
Ret(op, val, resp, n) == [op |-> op, val |-> val, resp |-> resp, refreshCalls |-> n]

\* n copies of the refresh continuation, as a bag
RefreshBag(n) ==
    IF n > 0 THEN [c \in {Pending("refreshToken", TRUE)} |-> n] ELSE EmptyBag

Init ==
    /\ accessKey \in AccessKeys
    /\ secret \in {Null, Str("secret")}
    /\ apiPath \in {DEFAULT_PATH, PrefixedPath}
    /\ tokenKey = Null
    /\ tokenKeyExpires = Null
    /\ tokenKeyNextRefresh = Null
    /\ now = StartTime
    /\ inflight = EmptyBag
    /\ sent = <<>>
    /\ ret = Ret("constructor", "none", NoResp, 0)
    /\ credentialsCache = <<>>
    /\ derived = {}
    /\ signedOut = [done |-> FALSE]

\* the clock advances
Tick ==
    /\ now + TickMs <= MaxNow
    /\ now' = now + TickMs
    /\ sent' = <<>>
    /\ ret' = Ret("tick", "none", NoResp, 0)
    /\ UNCHANGED <<signer, config, session, inflight>>

setAccessToken(token) ==
    LET fields == TokenFieldsAfterSet(token, tokenKeyExpires, tokenKeyNextRefresh)
    IN  /\ tokenKeyExpires' = fields[1]
        /\ tokenKeyNextRefresh' = fields[2]
        /\ tokenKey' = token
        /\ sent' = <<>>
        /\ ret' = Ret("setAccessToken", "none", NoResp, 0)
        /\ UNCHANGED <<signer, config, now, inflight>>

clearAccessToken ==
    /\ tokenKey' = Null
    /\ tokenKeyExpires' = Null
    /\ tokenKeyNextRefresh' = Null
    /\ sent' = <<>>
    /\ ret' = Ret("clearAccessToken", "none", NoResp, 0)
    /\ UNCHANGED <<signer, config, now, inflight>>

\* a sign-out that forgets the token and keeps its expiry
signOutTokenOnly ==
    /\ tokenKey' = Null
    /\ tokenKeyExpires' = tokenKeyExpires
    /\ tokenKeyNextRefresh' = Null
    /\ sent' = <<>>
    /\ ret' = Ret("signOut", "none", NoResp, 0)
    /\ UNCHANGED <<signer, config, now, inflight>>

signOut ==
    /\ tokenKey' = Null
    /\ tokenKeyExpires' = Null
    /\ tokenKeyNextRefresh' = Null
    /\ sent' = <<>>
    /\ ret' = Ret("signOut", "none", NoResp, 0)
    /\ UNCHANGED <<signer, config, now, inflight>>

\* getEntity(invoke...(...)): the call r either threw, or dispatched r.out
\* and left one continuation for op pending (and one for each refresh);
\* at most limit requests are in flight
DispatchWithin(limit, op, r, remember) ==
    IF r.threw # "none"
    THEN /\ sent' = <<>>
         /\ ret' = Ret(op, r.threw, NoResp, r.refreshCalls)
         /\ UNCHANGED <<signer, config, session, now, inflight>>
    ELSE /\ BagCardinality(inflight) + Len(r.out) <= limit
         /\ sent' = r.out
         /\ inflight' = inflight (+) SetToBag({Pending(op, remember)})
                                 (+) RefreshBag(Len(r.out) - 1)
         /\ ret' = Ret(op, "promise", NoResp, r.refreshCalls)
         /\ UNCHANGED <<signer, config, session, now>>

Dispatch(op, r, remember) == DispatchWithin(MaxInFlight, op, r, remember)

\* a JavaScript boolean
Bool(b) == [k |-> "bool", v |-> b]

\* isBoolean(rememberJWT) ? rememberJWT : true
rememberToken(rememberJWT) == IF rememberJWT.k = "bool" THEN rememberJWT.v ELSE TRUE

\* signIn(provider, providerToken, rememberJWT)
signIn(hasCredentials, rememberJWT) ==
    IF hasCredentials
    THEN Dispatch("signIn", invokeSignedRequest("POST", getFullPath(JWT_PATH), NoHeaders, 1),
                  rememberToken(rememberJWT))
    ELSE /\ sent' = <<>>
         /\ ret' = Ret("signIn", "null", NoResp, 0)
         /\ UNCHANGED <<signer, config, session, now, inflight>>

\* refreshToken(), called by the user of the client
refreshToken ==
    LET r == refreshTokenCall(1)
    IN  IF r.threw # "none"
        THEN /\ sent' = <<>>
             /\ ret' = Ret("refreshToken", r.threw, NoResp, r.refreshCalls)
             /\ UNCHANGED <<signer, config, session, now, inflight>>
        ELSE IF r.out = <<>>
        THEN /\ sent' = <<>>
             /\ ret' = Ret("refreshToken", "false", NoResp, r.refreshCalls)
             /\ UNCHANGED <<signer, config, session, now, inflight>>
        ELSE /\ BagCardinality(inflight) + Len(r.out) <= MaxInFlight
             /\ sent' = r.out
             /\ inflight' = inflight (+) RefreshBag(Len(r.out))
             /\ ret' = Ret("refreshToken", "promise", NoResp, r.refreshCalls)
             /\ UNCHANGED <<signer, config, session, now>>

revokeAllTokens ==
    Dispatch("revokeAllTokens",
             invokeSignedRequest("DELETE", getFullPath(JWT_PATH), NoHeaders, 1), TRUE)

\* me(accessToken): with a string the caller's token goes in as a header
me(accessToken) ==
    IF Truthy(accessToken)
    THEN Dispatch("me", invokeSignedRequest("GET", getFullPath(<<"_me">>),
                        {<<"Authorization", Bearer(accessToken)>>}, 1), TRUE)
    ELSE Dispatch("me", invokeSignedRequest("GET", getFullPath(<<"_me">>), NoHeaders, 1), TRUE)

\* types(): one of the plain wrappers, getEntity(invokeGet("_types"))
types ==
    Dispatch("types", invokeSignedRequest("GET", getFullPath(<<"_types">>), NoHeaders, 1), TRUE)

\* a ParaObject of type dog without an id, an array of values
ParaObject == [k |-> "obj", type |-> "dog"]
List(values) == [k |-> "array", v |-> values]
isArray(value) == value.k = "array"

\* an isEmpty that finds no collection empty
isEmptyNever(value) == FALSE

\* lodash isEmpty, for null, undefined and arrays
isEmpty(value) == ~isArray(value) \/ value.v = <<>>

\* fn(value); return resolve(value): no request is made
Resolved(op, value) ==
    /\ sent' = <<>>
    /\ ret' = Ret(op, value, NoResp, 0)
    /\ UNCHANGED <<signer, config, session, now, inflight>>

\* create(obj): POST to the type of an object that has no id
create(obj) ==
    IF ~Truthy(obj) THEN Resolved("create", "resolve(null)")
    ELSE Dispatch("create", invokeSignedRequest("POST", getFullPath(<<obj.type>>), NoHeaders, 1),
                  TRUE)

\* read(type, id)
read(type, id) ==
    IF ~Truthy(id) THEN Resolved("read", "resolve(null)")
    ELSE IF ~Truthy(type)
    THEN Dispatch("read", invokeSignedRequest("GET", getFullPath(<<"_id/", id.v>>), NoHeaders, 1),
                  TRUE)
    ELSE Dispatch("read", invokeSignedRequest("GET", getFullPath(<<type.v, "/", id.v>>),
                                              NoHeaders, 1), TRUE)

\* createAll(objects)
createAll(objects) ==
    IF ~Truthy(objects) \/ ~isArray(objects) \/ objects.v = <<>> \/ ~Truthy(objects.v[1])
    THEN Resolved("createAll", "resolve([])")
    ELSE Dispatch("createAll", invokeSignedRequest("POST", getFullPath(<<"_batch">>),
                                                   NoHeaders, 1), TRUE)

\* readAll(keys)
readAll(keys) ==
    IF ~Truthy(keys) \/ ~isArray(keys) \/ isEmpty(keys)
    THEN Resolved("readAll", "resolve([])")
    ELSE Dispatch("readAll", invokeSignedRequest("GET", getFullPath(<<"_batch">>),
                                                 NoHeaders, 1), TRUE)

\* updateAll(objects)
updateAll(objects) ==
    IF ~Truthy(objects) \/ ~isArray(objects) \/ isEmpty(objects)
    THEN Resolved("updateAll", "resolve([])")
    ELSE Dispatch("updateAll", invokeSignedRequest("PATCH", getFullPath(<<"_batch">>),
                                                   NoHeaders, 1), TRUE)

\* list(type, pager), pager a Pager or left out
list(type) ==
    IF ~Truthy(type) THEN Resolved("list", "resolve([])")
    ELSE Dispatch("list", invokeSignedRequest("GET", getFullPath(<<type.v>>), NoHeaders, 1),
                  TRUE)

\* a callback function
Function == [k |-> "function"]

\* grantResourcePermission(subjectid, resourcePath, permission,
\* allowGuestAccess, fn), the definition the class ends up with, called
\* with resourcePath "dog"; the fourth argument is what the caller passes
\* fourth.  The permission array is sent as the body of the PUT; push
\* changes the caller's own array, so the body is that array after the call.
grantResourcePermission(subjectid, permission, allowGuestAccess) ==
    IF ~Truthy(subjectid) \/ ~Truthy(permission) \/ ~isArray(permission)
    THEN Resolved("grantResourcePermission", "resolve({})")
    ELSE \E r \in {invokeSignedRequest("PUT",
                        getFullPath(<<"_permissions/", subjectid.v, "/", "dog">>),
                        NoHeaders, 1)} :
            IF r.threw # "none"
            THEN /\ sent' = <<>>
                 /\ ret' = Ret("grantResourcePermission", r.threw, NoResp, r.refreshCalls)
                 /\ UNCHANGED <<signer, config, session, now, inflight>>
            ELSE /\ BagCardinality(inflight) + Len(r.out) <= MaxInFlight
                 /\ sent' = [i \in 1..Len(r.out) |->
                               IF i < Len(r.out) THEN r.out[i]
                               ELSE [method |-> r.out[i].method, path |-> r.out[i].path,
                                     signed |-> r.out[i].signed, headers |-> r.out[i].headers,
                                     body |-> IF Truthy(allowGuestAccess) /\ subjectid = Str("*")
                                              THEN Append(permission.v, "?")
                                              ELSE permission.v]]
                 /\ inflight' = inflight (+) SetToBag({Pending("grantResourcePermission", TRUE)})
                                         (+) RefreshBag(Len(r.out) - 1)
                 /\ ret' = Ret("grantResourcePermission", "promise", NoResp, r.refreshCalls)
                 /\ UNCHANGED <<signer, config, session, now>>

\* the calls of grantResourcePermission made: <<subjectid, permission,
\* fourth argument>>, the fourth left out, a boolean or the callback
GrantCalls ==
    {<<Str("*"), List(<<"GET">>), g>> : g \in {Undefined, Bool(FALSE), Bool(TRUE), Function}}
    \cup {<<Str("u1"), List(<<"GET">>), g>> : g \in {Undefined, Bool(TRUE)}}
    \cup {<<Str("*"), Null, Undefined>>}

\* the data operations, which hand on what getEntity gives them
DataOps == {"create", "read", "createAll", "readAll", "updateAll", "list"}

\* typesCount(): a plain wrapper like types(), here called by a caller
\* that lets up to MaxOverlap requests overlap
typesCount ==
    DispatchWithin(MaxOverlap, "typesCount",
                   invokeSignedRequest("GET", getFullPath(<<"_types">>), NoHeaders, 1), TRUE)

\* the response to pending request c arrives
Receive(c) ==
    /\ BagIn(c, inflight)
    /\ inflight' = inflight (-) SetToBag({c})

\* what a successful sign-in or refresh stores
StoreJwt(jwtData) ==
    /\ tokenKey' = Field(jwtData, "access_token")
    /\ tokenKeyExpires' = Field(jwtData, "expires")
    /\ tokenKeyNextRefresh' = Field(jwtData, "refresh")

ClearSession ==
    /\ tokenKey' = Null
    /\ tokenKeyExpires' = Null
    /\ tokenKeyNextRefresh' = Null

\* a sign-in that stores whatever rememberToken says
StoreAlways(remember, jwtData) == StoreJwt(jwtData)

\* if (jwtData && rememberToken) { ... }
StoreIfRemembered(remember, jwtData) ==
    IF Truthy(jwtData) /\ remember THEN StoreJwt(jwtData) ELSE UNCHANGED session

\* the callbacks signIn chains to getEntity: then(...) and catch(...)
signInResponse(remember, resp) ==
    LET e == getEntity(resp)
    IN  /\ Receive(Pending("signIn", remember))
        /\ sent' = <<>>
        /\ UNCHANGED <<signer, config, now>>
        /\ IF e.settle = "resolve"
           THEN IF HasUserAndJwt(e.value)
                THEN /\ StoreIfRemembered(remember, Field(e.value, "jwt"))
                     /\ ret' = Ret("signIn", "user", resp, 0)
                ELSE /\ ClearSession
                     /\ ret' = Ret("signIn", "null", resp, 0)
           ELSE /\ UNCHANGED session
                /\ ret' = Ret("signIn", "null", resp, 0)

\* the callbacks refreshToken chains to getEntity
refreshResponse(resp) ==
    LET e == getEntity(resp)
    IN  /\ Receive(Pending("refreshToken", TRUE))
        /\ sent' = <<>>
        /\ UNCHANGED <<signer, config, now>>
        /\ IF e.settle = "resolve"
           THEN IF HasUserAndJwt(e.value)
                THEN /\ StoreJwt(Field(e.value, "jwt"))
                     /\ ret' = Ret("refreshToken", "true", resp, 0)
                ELSE /\ ClearSession
                     /\ ret' = Ret("refreshToken", "false", resp, 0)
           ELSE /\ UNCHANGED session
                /\ ret' = Ret("refreshToken", "false", resp, 0)

\* the callbacks revokeAllTokens chains to getEntity
revokeResponse(resp) ==
    LET e == getEntity(resp)
    IN  /\ Receive(Pending("revokeAllTokens", TRUE))
        /\ sent' = <<>>
        /\ UNCHANGED <<signer, config, session, now>>
        /\ IF e.settle = "resolve"
           THEN ret' = Ret("revokeAllTokens", IF e.value # Null THEN "true" ELSE "false", resp, 0)
           ELSE ret' = Ret("revokeAllTokens", "false", resp, 0)

\* newKeys(): POST _newkeys
newKeys ==
    Dispatch("newKeys", invokeSignedRequest("POST", getFullPath(<<"_newkeys">>), NoHeaders, 1),
             TRUE)

\* what the server answers to newKeys: credentials with a secretKey that
\* is new, empty, whitespace or left out, or a failure
KeysResponses ==
    {TransportError, [err |-> FALSE, status |-> 400, body |-> EmptyBody]}
    \cup {[err |-> FALSE, status |-> 200, body |-> [k |-> "obj", secretKey |-> key]] :
             key \in {Str("secret2"), Str(""), Str(" ")}}
    \cup {[err |-> FALSE, status |-> 200, body |-> [k |-> "obj"]]}

\* a newKeys callback that stores whatever secretKey the result has
NewSecretUnchecked(res, old) == Field(res, "secretKey")

\* if (res.secretKey && !isEmpty(res.secretKey.trim())) setSecret(res.secretKey):
\* the secret afterwards
NewSecret(res, old) ==
    IF ~IsBlank(Field(res, "secretKey")) THEN Field(res, "secretKey") ELSE old

\* the callback newKeys chains to getEntity
newKeysResponse(resp) ==
    LET e == getEntity(resp)
    IN  /\ Receive(Pending("newKeys", TRUE))
        /\ sent' = <<>>
        /\ UNCHANGED <<signer, accessKey, apiPath, session, now>>
        /\ IF e.settle = "resolve"
           THEN /\ secret' = NewSecret(e.value, secret)
                /\ ret' = Ret("newKeys", "resolved", resp, 0)
           ELSE /\ secret' = secret
                /\ ret' = Ret("newKeys", "rejected", resp, 0)

\* a wrapper that hands getEntity's promise to its caller (me, types)
entityResponse(op, resp) ==
    LET e == getEntity(resp)
    IN  /\ Receive(Pending(op, TRUE))
        /\ sent' = <<>>
        /\ UNCHANGED <<signer, config, session, now>>
        /\ ret' = Ret(op, IF e.settle = "resolve" THEN "resolved" ELSE "rejected", resp, 0)

Next ==
    \/ Tick
    \/ \E t \in {Null} \cup {Str(s) : s \in Tokens} : setAccessToken(t)
    \/ clearAccessToken
    \/ signOut
    \/ \E c \in BOOLEAN, r \in {Bool(TRUE), Bool(FALSE), Undefined} : signIn(c, r)
    \/ refreshToken
    \/ revokeAllTokens
    \/ \E t \in {Undefined, Str(TokOpaque)} : me(t)
    \/ types
    \/ \E r \in BOOLEAN, resp \in Responses : signInResponse(r, resp)
    \/ \E resp \in Responses : refreshResponse(resp)
    \/ \E resp \in Responses : revokeResponse(resp)
    \/ \E op \in {"me", "types"}, resp \in Responses : entityResponse(op, resp)

Spec == Init /\ [][Next]_vars

\* the client used for its data operations, with a token set by the
\* caller, obtained by a sign-in or refreshed on the way
DataNext ==
    \/ Tick
    \/ setAccessToken(Str(TokOpaque))
    \/ clearAccessToken
    \/ signIn(TRUE, Undefined)
    \/ \E resp \in Responses : signInResponse(TRUE, resp)
    \/ \E obj \in {Null, ParaObject} : create(obj)
    \/ \E type \in {Null, Str("dog")}, id \in {Null, Str(""), Str("id1")} : read(type, id)
    \/ \E objects \in {Null, List(<<>>), List(<<ParaObject>>)} : createAll(objects)
    \/ \E keys \in {Null, List(<<>>), List(<<Str("id1")>>)} : readAll(keys)
    \/ \E objects \in {Null, List(<<>>), List(<<ParaObject>>)} : updateAll(objects)
    \/ \E type \in {Null, Str(""), Str("dog")} : list(type)
    \/ \E resp \in Responses : refreshResponse(resp)
    \/ \E op \in DataOps, resp \in {r \in Responses : r.err \/ r.body = EmptyBody} :
          entityResponse(op, resp)

DataSpec == Init /\ [][DataNext]_vars

\* a signed-in client whose caller lets requests overlap
RaceNext ==
    \/ Tick
    \/ signIn(TRUE, Undefined)
    \/ typesCount
    \/ \E resp \in Responses : signInResponse(TRUE, resp)
    \/ \E resp \in Responses : refreshResponse(resp)
    \/ \E resp \in Responses : entityResponse("typesCount", resp)

RaceSpec == Init /\ [][RaceNext]_vars

\* a client whose keys are regenerated and whose permissions are granted
\* between its requests
KeysNext ==
    \/ Tick
    \/ setAccessToken(Str(TokOpaque))
    \/ clearAccessToken
    \/ newKeys
    \/ types
    \/ \E c \in GrantCalls : grantResourcePermission(c[1], c[2], c[3])
    \/ \E resp \in KeysResponses : newKeysResponse(resp)
    \/ \E op \in {"types", "grantResourcePermission"}, resp \in Responses :
          entityResponse(op, resp)

KeysSpec == Init /\ [][KeysNext]_vars

----------------------------------------------------------------------------
(* The request signer (AWS4Signer).  Strings are sequences of tokens, so    *)
(* that concatenation, join and substr work on them: "a,b" is               *)
(* <<"a", ",", "b">> and the empty string is <<>>.  A digest is the record  *)
(* of what went into it: two digests are equal exactly if their inputs are. *)

\* a string header value
Text(s) == [k |-> "text", v |-> s]

\* a || b on strings: the empty string and undefined are both falsy
OrElse(a, b) == IF a # <<>> THEN a ELSE b

\* Array.prototype.join(sep)
RECURSIVE JoinStr(_, _)
JoinStr(parts, sep) ==
    IF parts = <<>> THEN <<>>
    ELSE IF Len(parts) = 1 THEN parts[1]
    ELSE parts[1] \o <<sep>> \o JoinStr(Tail(parts), sep)

\* crypto.createHmac('sha256', key).update(string).digest()
hmac(key, string) == [key |-> key, string |-> string]

\* crypto.createHash('sha256').update(string).digest('hex')
hash(string) == [sha256 |-> string]

\* the number of characters of a token
chars(token) ==
    CASE token \in {"20150101", "20150102", "T000000Z", "T120000Z"} -> 8
      [] token \in {"{}"} -> 2
      [] OTHER -> 1

\* str.substr(0, n), for a cut that falls between two tokens
RECURSIVE substr(_, _)
substr(str, n) ==
    IF str = <<>> \/ chars(Head(str)) > n THEN <<>>
    ELSE <<Head(str)>> \o substr(Tail(str), n - chars(Head(str)))

\* Buffer.byteLength(body)
RECURSIVE byteLength(_)
byteLength(str) == IF str = <<>> THEN 0 ELSE chars(Head(str)) + byteLength(Tail(str))

\* headers[name], and whether it is there
HasHeader(headers, name) == \E h \in headers : h[1] = name
GetHeader(headers, name) == (CHOOSE h \in headers : h[1] = name)[2]

\* host names are sequences of labels: <<"paraio", "com">> is "paraio.com"
ProviderDomain == <<"amazonaws", "com">>

\* a matcher that takes the first two labels of any host
matchHostAnyDomain(host) ==
    IF Len(host) >= 2 THEN << <<host[1]>>, <<host[2]>> >> ELSE <<>>

\* (host || '').match(/^([^\.]+)\.?([^\.]*)\.amazonaws\.com$/), then
\* (match || []).slice(1, 3)
matchHost(host) ==
    IF Len(host) = 3 /\ SubSeq(host, 2, 3) = ProviderDomain
    THEN << <<host[1]>>, <<>> >>
    ELSE IF Len(host) = 4 /\ SubSeq(host, 3, 4) = ProviderDomain
         THEN << <<host[1]>>, <<host[2]>> >>
         ELSE <<>>

\* hostParts[i], undefined (falsy) beyond the end
HostPart(hostParts, i) == IF i <= Len(hostParts) THEN hostParts[i] ELSE <<>>

\* this.service, as the constructor sets it
ServiceOf(request) ==
    LET s == OrElse(request.service, OrElse(HostPart(matchHost(request.host), 1), <<>>))
    IN  IF s = <<"email">> THEN <<"ses">> ELSE s

\* this.region, as the constructor sets it
RegionOf(request) ==
    OrElse(request.region, OrElse(HostPart(matchHost(request.host), 2), <<"us-east-1">>))

\* the host name as a string
HostName(host) == JoinStr([i \in 1..Len(host) |-> <<host[i]>>], ".")

\* request.headers after the constructor: Host is added when no Host or
\* host header is there
ConstructedHeaders(request) ==
    IF HasHeader(request.headers, "Host") \/ HasHeader(request.headers, "host")
    THEN request.headers
    ELSE SetHeader(request.headers, "Host", Text(HostName(request.host)))

\* new Date(header).toISOString().replace(/[:\-]|\.\d{3}/g, ''), on the
\* Date headers of the model
ToCompactISO(dateHeader) ==
    CASE dateHeader = <<"Fri, 02 Jan 2015 12:00:00 GMT">> -> <<"20150102", "T120000Z">>
      [] OTHER -> <<"Invalid Date">>

\* the header names of the model, in the order of their lower-case forms
HeaderOrder ==
    <<"AUTHORIZATION", "Authorization", "authorization", "Content-Length",
      "Content-Type", "Date", "Host", "User-Agent", "X-Amz-Content-Sha256",
      "X-Amz-Date">>

\* key.toLowerCase()
toLowerCase(name) ==
    CASE name \in {"AUTHORIZATION", "Authorization"} -> "authorization"
      [] name = "Content-Length" -> "content-length"
      [] name = "Content-Type" -> "content-type"
      [] name = "Date" -> "date"
      [] name = "Host" -> "host"
      [] name = "User-Agent" -> "user-agent"
      [] name = "X-Amz-Content-Sha256" -> "x-amz-content-sha256"
      [] name = "X-Amz-Date" -> "x-amz-date"
      [] OTHER -> name

\* header.toString().trim().replace(/\s+/g, ' ') on a string: runs of
\* blanks become one blank, blanks at both ends go
RECURSIVE Collapse(_)
Collapse(s) ==
    IF Len(s) < 2 THEN s
    ELSE IF s[1] = " " /\ s[2] = " " THEN Collapse(Tail(s))
    ELSE <<s[1]>> \o Collapse(Tail(s))
trimAll(header) ==
    IF header.k # "text" THEN header
    ELSE LET c == Collapse(header.v)
             l == IF c # <<>> /\ Head(c) = " " THEN Tail(c) ELSE c
             r == IF l # <<>> /\ l[Len(l)] = " " THEN SubSeq(l, 1, Len(l) - 1) ELSE l
         IN  Text(r)

\* the names of the request's headers, sorted by lower-case form
SortedHeaderNames(headers) == SelectSeq(HeaderOrder, LAMBDA n : HasHeader(headers, n))

\* canonicalHeaders: "name:value" lines
canonicalHeaders(headers) ==
    LET names == SortedHeaderNames(headers)
    IN  [i \in 1..Len(names) |-> <<toLowerCase(names[i]), trimAll(GetHeader(headers, names[i]))>>]

\* signedHeaders: the lower-case names joined by ';'
signedHeaders(headers) ==
    LET names == SortedHeaderNames(headers)
    IN  JoinStr([i \in 1..Len(names) |-> <<toLowerCase(names[i])>>], ";")

\* this.datetime once sign() has come to authHeader(): the X-Amz-Date
\* header when headers may be modified, else getDateTime()
getDateTime(request, clock) ==
    LET h == ConstructedHeaders(request)
    IN  IF ~request.doNotModifyHeaders /\ HasHeader(h, "X-Amz-Date")
            /\ GetHeader(h, "X-Amz-Date").v # <<>>
        THEN GetHeader(h, "X-Amz-Date").v
        ELSE IF HasHeader(h, "Date") THEN ToCompactISO(GetHeader(h, "Date").v)
        ELSE IF HasHeader(h, "date") THEN ToCompactISO(GetHeader(h, "date").v)
        ELSE clock

\* the headers sign() adds in header mode, each when its condition holds:
\* Content-Type and Content-Length for a body, X-Amz-Content-Sha256 for
\* s3, X-Amz-Date unless the request brings one
AddedHeaders(request, clock) ==
    LET h == request.headers
    IN  (IF request.body # <<>> /\ ~HasHeader(h, "Content-Type")
             /\ ~HasHeader(h, "content-type")
         THEN {<<"Content-Type", Text(<<"application/x-www-form-urlencoded; charset=utf-8">>)>>}
         ELSE {})
        \cup
        (IF request.body # <<>> /\ ~HasHeader(h, "Content-Length")
             /\ ~HasHeader(h, "content-length")
         THEN {<<"Content-Length", Num(byteLength(request.body))>>}
         ELSE {})
        \cup
        (IF ServiceOf(request) = <<"s3">>
         THEN {<<"X-Amz-Content-Sha256", hash(request.body)>>}
         ELSE {})
        \cup
        (IF HasHeader(h, "X-Amz-Date") /\ GetHeader(h, "X-Amz-Date").v # <<>>
         THEN {}
         ELSE {<<"X-Amz-Date", Text(getDateTime(request, clock))>>})

\* the headers the signature is computed over: sign() in header mode, up
\* to the two deletes of the authorization header
HeadersToSign(request, clock) ==
    LET added == IF request.doNotModifyHeaders THEN {} ELSE AddedHeaders(request, clock)
        names == {a[1] : a \in added}
    IN  {h \in ConstructedHeaders(request) :
            h[1] \notin names \cup {"Authorization", "authorization"}}
        \cup added

\* getDate
getDate(request, clock) == substr(getDateTime(request, clock), 8)

\* credentialString
credentialString(request, clock) ==
    JoinStr(<<getDate(request, clock), RegionOf(request), ServiceOf(request),
              <<"aws4_request">>>>, "/")

\* query values: null, a string, or an array of those
Array(values) == [k |-> "array", v |-> values]

\* a rule that takes the last value of an array
LastValue(value) ==
    IF value.k = "array"
    THEN IF value.v = <<>> THEN <<>>
         ELSE <<IF value.v[Len(value.v)] # Null THEN value.v[Len(value.v)] ELSE Text(<<>>)>>
    ELSE <<IF value # Null THEN value ELSE Text(<<>>)>>

\* the first-value rule of invokeSignedRequest: what goes into paramsObj
\* for one value of params (<<>> when the key is left out)
FirstValue(value) ==
    IF value.k = "array"
    THEN IF value.v = <<>> THEN <<>>
         ELSE <<IF Head(value.v) # Null THEN Head(value.v) ELSE Text(<<>>)>>
    ELSE <<IF value # Null THEN value ELSE Text(<<>>)>>

\* paramsObj: params is a sequence of <<key, value>> in insertion order
RECURSIVE paramsObj(_)
paramsObj(params) ==
    IF params = <<>> THEN <<>>
    ELSE LET v == FirstValue(Head(params)[2])
         IN  (IF v = <<>> THEN <<>> ELSE << <<Head(params)[1], v[1]>> >>)
             \o paramsObj(Tail(params))

\* the percent-encodings of the special characters of the model
formEncode(token) ==
    CASE token = " " -> "+"
      [] token = "&" -> "%26"
      [] token = "*" -> "*"
      [] OTHER -> token
formDecode(token) ==
    CASE token = "+" -> " "
      [] token = "%26" -> "&"
      [] token = "%2A" -> "*"
      [] OTHER -> token
qsEscape(token) ==
    CASE token = " " -> "%20"
      [] token = "&" -> "%26"
      [] token = "*" -> "*"
      [] OTHER -> token
\* .replace(/[!'()*]/g, ...)
awsEscape(token) == IF token = "*" THEN "%2A" ELSE token

\* the encodings applied to every character of a string
formEncodeStr(str) == [i \in 1..Len(str) |-> formEncode(str[i])]
formDecodeStr(str) == [i \in 1..Len(str) |-> formDecode(str[i])]
escapeStr(str) == [i \in 1..Len(str) |-> awsEscape(qsEscape(str[i]))]

\* new URLSearchParams(paramsObj).toString(): the list of "key=value"
\* pairs of the query string
URLSearchParams(obj) ==
    [i \in 1..Len(obj) |-> <<obj[i][1], formEncodeStr(obj[i][2].v)>>]

\* the keys and values of the model in sort() order
KeyOrder == <<"a", "b">>
ValueRank(str) ==
    CASE str = <<>> -> 0
      [] str = <<"x">> -> 1
      [] str = <<"x", " ", "*">> -> 2
      [] str = <<"y">> -> 3
      [] OTHER -> 4

\* querystring.parse: the pairs of the query string, decoded
parse(queryStr) ==
    [i \in 1..Len(queryStr) |-> <<queryStr[i][1], formDecodeStr(queryStr[i][2])>>]

\* query[key] for a parsed query, as the sorted list of the key's values
SortedValues(query, key) ==
    LET own == SelectSeq(query, LAMBDA p : p[1] = key)
    IN  SortSeq([i \in 1..Len(own) |-> own[i][2]],
                LAMBDA u, v : ValueRank(u) < ValueRank(v))

\* querystring.stringify over the sorted keys, then the replace of
\* [!'()*]: the canonical query string, as the list of its "key=value"
\* pairs
RECURSIVE stringify(_, _)
stringify(query, keys) ==
    IF keys = <<>> THEN <<>>
    ELSE LET vs == SortedValues(query, Head(keys))
         IN  [i \in 1..Len(vs) |->
                 <<Head(keys), escapeStr(vs[i])>>]
             \o stringify(query, Tail(keys))

canonicalQuery(queryStr) == stringify(parse(queryStr), KeyOrder)

\* url.resolve('/', pathStr): "." and ".." segments are resolved
RECURSIVE resolve(_, _)
resolve(done, segments) ==
    IF segments = <<>> THEN done
    ELSE IF Head(segments) = "." THEN resolve(done, Tail(segments))
    ELSE IF Head(segments) = ".."
         THEN resolve(IF done = <<>> THEN <<>> ELSE SubSeq(done, 1, Len(done) - 1),
                      Tail(segments))
    ELSE resolve(Append(done, Head(segments)), Tail(segments))

\* canonicalString
canonicalString(request, clock) ==
    [method |-> request.method,
     path |-> resolve(<<>>, request.path),
     query |-> IF request.hasQuery THEN canonicalQuery(request.query) ELSE <<>>,
     headers |-> canonicalHeaders(HeadersToSign(request, clock)),
     signedHeaders |-> signedHeaders(HeadersToSign(request, clock)),
     bodyHash |-> hash(request.body)]

\* stringToSign
stringToSign(request, clock) ==
    [algorithm |-> "AWS4-HMAC-SHA256",
     datetime |-> getDateTime(request, clock),
     scope |-> credentialString(request, clock),
     hash |-> hash(canonicalString(request, clock))]

\* the capacity of credentialsCache: lru(1000) in the source, scaled down
\* so that evictions happen
CacheCapacity == 2

\* the cache is the sequence of its entries, least recently used first
CacheEntry(key, value) == [key |-> key, value |-> value]
\* a cache lookup that never finds anything
CacheHasNever(cache, key) == FALSE
CacheHas(cache, key) == \E i \in 1..Len(cache) : cache[i].key = key
CacheWithout(cache, key) == SelectSeq(cache, LAMBDA e : e.key # key)
\* credentialsCache.get(cacheKey): the value, and the entry becomes the
\* most recently used
cacheGet(cache, key) ==
    LET e == cache[CHOOSE i \in 1..Len(cache) : cache[i].key = key]
    IN  [value |-> e.value, cache |-> Append(CacheWithout(cache, key), e)]
\* credentialsCache.set(cacheKey, kCredentials): the least recently used
\* entry goes when the cache is full
cacheSet(cache, key, value) ==
    LET c == Append(CacheWithout(cache, key), CacheEntry(key, value))
    IN  IF Len(c) > CacheCapacity THEN Tail(c) ELSE c

\* [secretAccessKey, date, region, service].join()
cacheKey(secretAccessKey, date, region, service) ==
    JoinStr(<<secretAccessKey, date, region, service>>, ",")

\* kDate, kRegion, kService, kCredentials
DerivedKey(secretAccessKey, date, region, service) ==
    LET kDate == hmac(<<"AWS4">> \o secretAccessKey, date)
        kRegion == hmac(kDate, region)
        kService == hmac(kRegion, service)
    IN  hmac(kService, <<"aws4_request">>)

\* the (secret, date, region, service) tuple of a signing
TupleOf(request, credentials, clock) ==
    <<credentials.secretAccessKey, getDate(request, clock), RegionOf(request),
      ServiceOf(request)>>

\* signature: the hex digest, with the tuple and the cache key it was made
\* for, the key it was made with, whether that key came out of the cache,
\* and the cache afterwards
signature(request, credentials, clock, cache) ==
    LET t == TupleOf(request, credentials, clock)
        key == cacheKey(t[1], t[2], t[3], t[4])
        hit == CacheHas(cache, key)
        kCredentials == IF hit THEN cacheGet(cache, key).value
                        ELSE DerivedKey(t[1], t[2], t[3], t[4])
    IN  [hex |-> hmac(kCredentials, stringToSign(request, clock)),
         tuple |-> t,
         cacheKey |-> key,
         kCredentials |-> kCredentials,
         hit |-> hit,
         cache |-> IF hit THEN cacheGet(cache, key).cache
                   ELSE cacheSet(cache, key, kCredentials)]

\* authHeader: the fields of the Authorization value
authHeader(request, credentials, clock, hex) ==
    [k |-> "AWS4-HMAC-SHA256",
     Credential |-> credentials.accessKeyId \o <<"/">> \o credentialString(request, clock),
     SignedHeaders |-> signedHeaders(HeadersToSign(request, clock)),
     Signature |-> hex]

\* new AWS4Signer(request, credentials).sign() in header mode: the signed
\* request and what signature() did on the way
AWS4Signer(request, credentials, clock, cache) ==
    LET s == signature(request, credentials, clock, cache)
    IN  [headers |-> SetHeader(HeadersToSign(request, clock), "Authorization",
                               authHeader(request, credentials, clock, s.hex)),
         signature |-> s.hex,
         tuple |-> s.tuple,
         cacheKey |-> s.cacheKey,
         kCredentials |-> s.kCredentials,
         hit |-> s.hit,
         cache |-> s.cache]

\* opts, as invokeSignedRequest builds it for sign()
Opts(httpMethod, host, reqPath, headers, params, jsonEntity) ==
    [service |-> <<"para">>,
     region |-> <<>>,
     method |-> httpMethod,
     host |-> host,
     path |-> reqPath,
     hasQuery |-> params # <<>>,
     query |-> URLSearchParams(paramsObj(params)),
     headers |-> IF jsonEntity # <<>>
                 THEN SetHeader(headers, "Content-Type",
                                Text(<<"application/json; charset=UTF-8">>))
                 ELSE headers,
     body |-> jsonEntity,
     doNotModifyHeaders |-> FALSE]

\* the requests handed to the signer directly, each with a date header
SignerRequest(host, service, region, query, headers) ==
    [service |-> service, region |-> region, method |-> "GET", host |-> host,
     path |-> <<"v1", "users">>, hasQuery |-> query # <<>>, query |-> query,
     headers |-> headers, body |-> <<>>, doNotModifyHeaders |-> FALSE]
DateHeader == {<<"X-Amz-Date", Text(<<"20150101", "T000000Z">>)>>}
ExampleHost == <<"service", "us-east-1", "example", "com">>
ProviderHost == <<"service", "us-east-1", "amazonaws", "com">>
ParaHost == <<"paraio", "com">>
\* an authorization header the caller left in the request, under a name in
\* some letter case
OldAuthorization(name) == {<<name, Text(<<"Bearer", " ", "old">>)>>}
AuthorizationNames == {"Authorization", "authorization", "AUTHORIZATION"}
\* a Date header
HttpDate == {<<"Date", Text(<<"Fri, 02 Jan 2015 12:00:00 GMT">>)>>}
\* requests with and without X-Amz-Date, with and without Date, with
\* doNotModifyHeaders set and unset
DatedRequests ==
    {[SignerRequest(ParaHost, <<"para">>, <<>>, <<>>, x \cup d)
         EXCEPT !.doNotModifyHeaders = m] :
       x \in {{}, DateHeader}, d \in {{}, HttpDate}, m \in BOOLEAN}
ExampleRequest == SignerRequest(ExampleHost, <<>>, <<>>, <<>>, DateHeader)
ProviderRequest == SignerRequest(ProviderHost, <<>>, <<>>, <<>>, DateHeader)
SignerRequests ==
    { ExampleRequest,
      ProviderRequest,
      SignerRequest(ParaHost, <<"b", ",", "c">>, <<"a">>, <<>>, DateHeader),
      SignerRequest(ParaHost, <<"c">>, <<"a", ",", "b">>, <<>>, DateHeader),
      SignerRequest(ProviderHost, <<>>, <<>>,
                    << <<"a", <<"y">>>>, <<"a", <<"x">>>> >>, DateHeader),
      [SignerRequest(ParaHost, <<"para">>, <<>>, <<>>, HttpDate)
          EXCEPT !.method = "POST", !.body = <<"{}">>, !.doNotModifyHeaders = TRUE] }
    \cup {SignerRequest(ProviderHost, <<>>, <<>>, <<>>, DateHeader \cup OldAuthorization(n)) :
            n \in AuthorizationNames}
    \cup DatedRequests
AwsCredentials == [accessKeyId |-> <<"AKID">>, secretAccessKey |-> <<"SECRET">>]

\* what new Date() is when a request is signed
SignerClock == <<"20150102", "T120000Z">>

\* the params the client is called with
ParamsSet ==
    { <<>>,
      << <<"a", Text(<<"x">>)>> >>,
      << <<"a", Array(<<Text(<<"x">>), Text(<<"y">>)>>)>> >>,
      << <<"b", Array(<<Null, Text(<<"y">>)>>)>>,
         <<"a", Array(<<Text(<<"x", " ", "*">>), Text(<<"x">>)>>)>> >>,
      << <<"a", Array(<<>>)>>, <<"b", Null>> >> }

\* one signing: the cache is updated, the derivations are counted and the
\* outcome is kept
Signed(request, credentials, clock, params) ==
    \E r \in {AWS4Signer(request, credentials, clock, credentialsCache)} :
        /\ credentialsCache' = r.cache
        /\ derived' = IF r.hit THEN derived ELSE derived \cup {r.tuple}
        /\ signedOut' = [done |-> TRUE, request |-> request, credentials |-> credentials,
                         clock |-> clock, params |-> params, headers |-> r.headers,
                         signature |-> r.signature, tuple |-> r.tuple,
                         cacheKey |-> r.cacheKey, kCredentials |-> r.kCredentials,
                         hit |-> r.hit]
        /\ UNCHANGED <<config, session, now, inflight, sent, ret>>

\* AWS4Signer.sign(request, credentials), called by a user of the signer
signRequest(request, clock) == Signed(request, AwsCredentials, clock, <<>>)

\* sign(opts, {accessKeyId: accessKey, secretAccessKey: secret}), called by
\* invokeSignedRequest of a client that holds a secret key and no token
signClientRequest(httpMethod, params, jsonEntity, clock) ==
    /\ tokenKey = Null /\ Truthy(secret) /\ ~IsBlank(accessKey)
    /\ Signed(Opts(httpMethod, ParaHost, <<"v1", "users">>, NoHeaders, params, jsonEntity),
              [accessKeyId |-> <<accessKey.v>>, secretAccessKey |-> <<secret.v>>],
              clock, params)

SignerInit ==
    /\ Init
    /\ Truthy(secret) /\ ~IsBlank(accessKey)
    /\ apiPath = DEFAULT_PATH

SignerNext ==
    \/ \E request \in SignerRequests :
          signRequest(request, SignerClock)
    \/ \E params \in ParamsSet :
          signClientRequest("GET", params, <<>>, SignerClock)
    \/ signClientRequest("POST", <<>>, <<"{}">>, SignerClock)

SignerSpec == SignerInit /\ [][SignerNext]_vars

----------------------------------------------------------------------------
(* Properties *)

\* the values a request carries under the header name Authorization, in
\* any letter case
AuthValues(req) == {h[2] : h \in {g \in req.headers : g[1] \in {"Authorization", "authorization"}}}

\* a response has been handled by the last step
Handled == ret.resp # NoResp
\* the response handled by the last step is a success carrying user and jwt
HandledSuccess ==
    /\ ~ret.resp.err
    /\ ret.resp.status \in {200, 201, 304}
    /\ Field(ret.resp.body, "user") # Undefined
    /\ Field(ret.resp.body, "jwt") # Undefined
SessionCleared ==
    tokenKey = Null /\ tokenKeyExpires = Null /\ tokenKeyNextRefresh = Null

\* C1: every request dispatched carries exactly one Authorization value,
\* which is "Anonymous <accessKey>", a signature made with the configured
\* secret key, or "Bearer <held token>"; never a mechanism whose credential
\* is absent.
C1_ExactlyOneMechanism ==
    \A i \in DOMAIN sent :
        LET a == AuthValues(sent[i])
        IN  /\ Cardinality(a) = 1
            /\ \A v \in a :
                  \/ v = Anonymous(accessKey)
                  \/ Truthy(secret) /\ v = Signature(accessKey, secret)
                  \/ tokenKey # Null /\ v = Bearer(tokenKey)

\* C2: while a token is held, every request dispatched carries
\* "Bearer <held token>" as its only Authorization value and no signature
\* is computed for it, also when a secret key is configured.
C2_BearerWhenTokenHeld ==
    tokenKey # Null =>
        \A i \in DOMAIN sent :
            AuthValues(sent[i]) = {Bearer(tokenKey)} /\ ~sent[i].signed

\* a request, preceded by its refresh GET, dispatched with a token held and
\* a secret key configured
C2_Witness ==
    tokenKey # Null /\ Truthy(secret) /\ Len(sent) = 2

\* C3: the refresh GET never triggers another refresh: in one call chain
\* refreshToken is entered at most once, at most one refresh GET goes out
\* and the call returns (the call stack does not overflow).
C3_RefreshNeverReenters ==
    /\ ret.refreshCalls <= 1
    /\ ret.val # "RangeError"

\* C4: once the response to revokeAllTokens has been received without
\* transport error, token, expiry and next-refresh are null.
C4_RevokeClearsSession ==
    (ret.op = "revokeAllTokens" /\ Handled /\ ~ret.resp.err) => SessionCleared

\* C5: when the response to the refresh GET has been handled: on success
\* with user and jwt the three session fields are the response's and the
\* result is true; on any failure the session is cleared and the result is
\* false.
C5_RefreshOutcome ==
    (ret.op = "refreshToken" /\ Handled) =>
        IF HandledSuccess
        THEN /\ tokenKey = ret.resp.body.jwt.access_token
             /\ tokenKeyExpires = ret.resp.body.jwt.expires
             /\ tokenKeyNextRefresh = ret.resp.body.jwt.refresh
             /\ ret.val = "true"
        ELSE SessionCleared /\ ret.val = "false"

\* C6: when the sign-in call has failed (transport error, error status,
\* response lacking user or jwt), no token is held and the value returned
\* to the caller is null, by a resolved promise.
C6_SignInFailsClosed ==
    (ret.op = "signIn" /\ Handled /\ ~HandledSuccess) =>
        tokenKey = Null /\ ret.val = "null"

\* the condition of C7, on the session fields as numbers
C7_Eligible ==
    /\ tokenKey # Null
    /\ tokenKeyExpires # Null /\ JsGt(tokenKeyExpires, Num(now))
    /\ tokenKeyNextRefresh # Null
    /\ \/ JsLt(tokenKeyNextRefresh, Num(now))
       \/ JsGt(tokenKeyNextRefresh, tokenKeyExpires)

\* C7: a call of refreshToken dispatches a refresh request if and only if
\* a token is held, it has not expired, and next-refresh is in the past or
\* after the expiry.
C7_RefreshIffEligible ==
    (ret.op = "refreshToken" /\ ~Handled) => (sent # <<>> <=> C7_Eligible)

\* C8: with no token held, refreshToken returns false and dispatches no
\* request.
C8_NoTokenNoRefresh ==
    (ret.op = "refreshToken" /\ ~Handled /\ tokenKey = Null) =>
        (ret.val = "false" /\ sent = <<>>)

\* refreshToken has returned false with no token held
C8_Witness ==
    ret.op = "refreshToken" /\ ~Handled /\ tokenKey = Null /\ ret.val = "false"

\* the tokens with no middle segment, or one that is not base64url or
\* does not decode to JSON
MalformedTokens == {TokShort, TokOpaque, TokBadB64, TokBadJson}

\* C9: setAccessToken with a malformed token leaves expiry and
\* next-refresh null and stores the raw token.
C9_MalformedTokenResets ==
    (ret.op = "setAccessToken" /\ tokenKey \in {Str(t) : t \in MalformedTokens}) =>
        tokenKeyExpires = Null /\ tokenKeyNextRefresh = Null

\* C10: setAccessToken with a token whose payload is JSON without exp
\* leaves expiry and next-refresh null, whatever they were, and stores the
\* raw token.
C10_MissingExpResets ==
    (ret.op = "setAccessToken" /\ tokenKey = Str(TokNoExp)) =>
        tokenKeyExpires = Null /\ tokenKeyNextRefresh = Null

\* C11: a sign-in answered with a user and a token returns the user,
\* whatever rememberJWT was; when rememberJWT was true or omitted the
\* session becomes the response's access_token, expires and refresh, and
\* when it was false the session fields stay exactly as they were.
C11_SignInRemember ==
    [][(ret'.op = "signIn" /\ Handled' /\ HandledSuccess') =>
          /\ ret'.val = "user"
          /\ IF CopiesIn(Pending("signIn", TRUE), inflight')
                   < CopiesIn(Pending("signIn", TRUE), inflight)
             THEN /\ tokenKey' = ret'.resp.body.jwt.access_token
                  /\ tokenKeyExpires' = ret'.resp.body.jwt.expires
                  /\ tokenKeyNextRefresh' = ret'.resp.body.jwt.refresh
             ELSE UNCHANGED session]_vars

\* a sign-in has just succeeded without its token being stored
C11_Witness ==
    /\ ret.op = "signIn" /\ Handled /\ HandledSuccess
    /\ ret.val = "user"
    /\ tokenKey # ret.resp.body.jwt.access_token

\* C12: signOut is local: the step sets token, expiry and next-refresh to
\* null, dispatches no request, and leaves the access key, the secret key,
\* the API path and the requests in flight as they were.
C12_SignOutLocal ==
    [][ret'.op = "signOut" =>
          /\ SessionCleared'
          /\ sent' = <<>>
          /\ UNCHANGED <<config, inflight>>]_vars

\* signOut has just run on a client that holds a secret key and has a
\* request in flight
C12_Witness ==
    /\ ret.op = "signOut"
    /\ Truthy(secret)
    /\ inflight # EmptyBag
    /\ SessionCleared

\* the calls that always go through invokeSignedRequest
RequestOps == {"revokeAllTokens", "me", "types"}

\* C13: every call of a public method that talks to the server returns a
\* promise, for every input and every session state, signIn without
\* provider or token and refreshToken without a refresh included.
C13_AlwaysPromise ==
    (~Handled /\ ret.op \in RequestOps \cup {"signIn", "refreshToken"}) =>
        ret.val = "promise"

\* C14: a request attempted with a null, empty or whitespace-only access
\* key throws an Error out of invokeSignedRequest: nothing is dispatched
\* or left in flight and the session fields stay as they were.
C14_BlankAccessKeyThrows ==
    [][(accessKey \in {Null, Str(""), Str(" ")} /\ ~Handled'
          /\ (ret'.op \in RequestOps \/ (ret'.op = "signIn" /\ ret'.val # "null"))) =>
             /\ ret'.val = "Error"
             /\ sent' = <<>>
             /\ UNCHANGED <<session, inflight>>]_vars

\* a request has just thrown on a whitespace-only access key while a token
\* was held
C14_Witness ==
    /\ accessKey = Str(" ")
    /\ ret.op \in RequestOps /\ ret.val = "Error"
    /\ tokenKey # Null
    /\ sent = <<>>

\* C15: the promise getEntity hands to me and types resolves exactly for
\* the responses without transport error whose status is 2xx or 304, and
\* rejects for every other response.
C15_ResolvesOn2xxOr304 ==
    (Handled /\ ret.op \in {"me", "types"}) =>
        (ret.val = "resolved" <=>
            (~ret.resp.err /\ (ret.resp.status \in 200..299 \/ ret.resp.status = 304)))

\* the Credential field of the last signing
SignedCredential == GetHeader(signedOut.headers, "Authorization").Credential

\* C16: the key a signing gets from the cache is the key derived for its
\* own (secret, date, region, service) tuple, never one derived for
\* another tuple.
C16_NoCacheCollision ==
    signedOut.done =>
        signedOut.kCredentials
            = DerivedKey(signedOut.tuple[1], signedOut.tuple[2], signedOut.tuple[3],
                         signedOut.tuple[4])

\* C17: a signing gives the signature that the same request, credentials
\* and timestamp give on an empty cache, whatever was signed before: a
\* cache hit and a cache miss give the same result.
C17_HitEqualsMiss ==
    signedOut.done =>
        signedOut.signature
            = AWS4Signer(signedOut.request, signedOut.credentials, signedOut.clock,
                         <<>>).signature

\* C18, as stated: the derivation chain runs at most once for a tuple; a
\* signing for a tuple whose key was derived before never derives it again.
C18_ChainRunsOncePerTuple ==
    [][(signedOut'.done /\ ~signedOut'.hit) => signedOut'.tuple \notin derived]_vars

\* C18, amended: a signing runs the derivation chain exactly when the
\* cache holds no entry under the tuple's cache key, and then stores the
\* key; an entry leaves the cache only when the cache is full and a miss
\* evicts the least recently used one (after which the chain runs again).
C18_ChainRunsOnMissOnly ==
    [][signedOut'.done =>
          /\ signedOut'.hit
                <=> (\E i \in 1..Len(credentialsCache) :
                        credentialsCache[i].key = signedOut'.cacheKey)
          /\ derived' = IF signedOut'.hit THEN derived ELSE derived \cup {signedOut'.tuple}
          /\ credentialsCache'[Len(credentialsCache')].key = signedOut'.cacheKey
          /\ Len(credentialsCache') <= CacheCapacity
          /\ \A i \in 1..Len(credentialsCache) :
                \/ \E j \in 1..Len(credentialsCache') :
                      credentialsCache'[j] = credentialsCache[i]
                \/ ~signedOut'.hit /\ i = 1 /\ Len(credentialsCache) = CacheCapacity]_vars

\* a tuple signed before has just been signed again with the key taken
\* from the cache
C18_Witness ==
    /\ signedOut.done /\ signedOut.hit
    /\ signedOut.tuple \in derived
    /\ Len(credentialsCache) = CacheCapacity

\* params with each array replaced by its first value
HeadParams(params) ==
    [i \in 1..Len(params) |->
        <<params[i][1],
          IF params[i][2].k = "array" THEN Head(params[i][2].v) ELSE params[i][2]>>]

\* C19: for params whose arrays are all non-empty, the client signs the
\* string to sign, and in it the canonical query string, of the same
\* request made with only the first value of every array.
C19_FirstValueSigned ==
    (/\ signedOut.done /\ signedOut.params # <<>>
     /\ \A i \in 1..Len(signedOut.params) :
           signedOut.params[i][2].k = "array" => signedOut.params[i][2].v # <<>>) =>
        LET single == Opts(signedOut.request.method, signedOut.request.host,
                           signedOut.request.path, NoHeaders,
                           HeadParams(signedOut.params), signedOut.request.body)
        IN  /\ canonicalString(signedOut.request, signedOut.clock).query
                  = canonicalString(single, signedOut.clock).query
            /\ stringToSign(signedOut.request, signedOut.clock)
                  = stringToSign(single, signedOut.clock)

\* the client has just signed a request whose parameter a has the values
\* x and y, with the canonical query string a=x
C19_Witness ==
    /\ signedOut.done
    /\ signedOut.params = << <<"a", Array(<<Text(<<"x">>), Text(<<"y">>)>>)>> >>
    /\ canonicalString(signedOut.request, signedOut.clock).query = << <<"a", <<"x">>>> >>

\* C20, as stated: for host service.us-east-1.example.com and date header
\* 20150101T000000Z the Credential field is
\* AKID/20150101/us-east-1/service/aws4_request.
C20_CredentialFromHostLabels ==
    (signedOut.done /\ signedOut.request = ExampleRequest) =>
        SignedCredential = <<"AKID", "/", "20150101", "/", "us-east-1", "/", "service",
                             "/", "aws4_request">>

\* C20, amended: service and region come from the host's first two labels
\* only for a host under amazonaws.com: for service.us-east-1.amazonaws.com
\* the Credential field is AKID/20150101/us-east-1/service/aws4_request;
\* for service.us-east-1.example.com the service is empty and the region
\* is the default, AKID/20150101/us-east-1//aws4_request.  The scope date
\* is the first 8 characters of the date header in both.
C20_CredentialFromProviderHost ==
    /\ (signedOut.done /\ signedOut.request = ProviderRequest) =>
          SignedCredential = <<"AKID", "/", "20150101", "/", "us-east-1", "/", "service",
                               "/", "aws4_request">>
    /\ (signedOut.done /\ signedOut.request = ExampleRequest) =>
          SignedCredential = <<"AKID", "/", "20150101", "/", "us-east-1", "/",
                               "/", "aws4_request">>

\* the request to service.us-east-1.example.com has just been signed
C20_Witness ==
    /\ signedOut.done
    /\ signedOut.request = ExampleRequest
    /\ HasHeader(signedOut.headers, "Authorization")

\* the headers of a header mapping whose name is authorization in some
\* letter case
AuthorizationHeaders(headers) == {h \in headers : toLowerCase(h[1]) = "authorization"}

\* C21: after a header-mode signing of a request that brought an
\* authorization header, in whatever letter case, the signed request has
\* exactly one authorization header, the newly computed one, and
\* authorization is not among the signed headers.
C21_OneAuthorizationHeader ==
    (signedOut.done /\ AuthorizationHeaders(signedOut.request.headers) # {}) =>
        /\ Cardinality(AuthorizationHeaders(signedOut.headers)) = 1
        /\ \A h \in AuthorizationHeaders(signedOut.headers) :
              /\ h[2].k = "AWS4-HMAC-SHA256"
              /\ \A i \in 1..Len(h[2].SignedHeaders) :
                    h[2].SignedHeaders[i] # "authorization"

\* the step made no request: nothing sent or left in flight, the session
\* fields as before, and val handed to the caller and the callback
NoRequest(op, val) ==
    /\ sent' = <<>>
    /\ ret' = Ret(op, val, NoResp, 0)
    /\ UNCHANGED <<session, inflight>>

\* C22: create(null) and read with a null or empty id resolve with null;
\* createAll, readAll and updateAll with null or an empty array and list
\* with a null or empty type resolve with an empty list; none of them
\* dispatches a request or changes the session fields.
C22_EmptyInputNoRequest ==
    [][/\ create(Null) => NoRequest("create", "resolve(null)")
       /\ \A type \in {Null, Str("dog")}, id \in {Null, Str("")} :
             read(type, id) => NoRequest("read", "resolve(null)")
       /\ \A objects \in {Null, List(<<>>)} :
             /\ createAll(objects) => NoRequest("createAll", "resolve([])")
             /\ readAll(objects) => NoRequest("readAll", "resolve([])")
             /\ updateAll(objects) => NoRequest("updateAll", "resolve([])")
       /\ \A type \in {Null, Str("")} :
             list(type) => NoRequest("list", "resolve([])")]_vars

\* readAll has just resolved with an empty list while a token was held
\* and a request was in flight
C22_Witness ==
    /\ ret = Ret("readAll", "resolve([])", NoResp, 0)
    /\ tokenKey # Null
    /\ inflight # EmptyBag
    /\ sent = <<>>

\* the request is the refresh GET
IsRefreshGet(req) == req.method = "GET" /\ req.path = getFullPath(JWT_PATH)

\* C23: a request made while a refresh is eligible, others being in
\* flight or not, dispatches its own refresh GET before itself; and once
\* a refresh response has been handled and no other is in flight, token,
\* expiry and next-refresh are what that last response sets: the values
\* of its jwt when it carries user and jwt, null when it is a failure.
C23_LastRefreshWins ==
    /\ (ret.op = "typesCount" /\ ~Handled /\ CanRefreshNow) =>
          /\ Len(sent) = 2
          /\ IsRefreshGet(sent[1]) /\ ~IsRefreshGet(sent[2])
    /\ (ret.op = "refreshToken" /\ Handled
          /\ ~BagIn(Pending("refreshToken", TRUE), inflight)) =>
          IF HandledSuccess
          THEN /\ tokenKey = Field(Field(ret.resp.body, "jwt"), "access_token")
               /\ tokenKeyExpires = Field(Field(ret.resp.body, "jwt"), "expires")
               /\ tokenKeyNextRefresh = Field(Field(ret.resp.body, "jwt"), "refresh")
          ELSE SessionCleared

\* C24: when a caller with a token held and nothing in flight makes a
\* request, every request dispatched other than the refresh GET got its
\* bearer header after refreshToken was entered; and if a refresh was
\* eligible, the request itself does not go out with the token that was
\* held when it started.
C24_SentWithRefreshedToken ==
    [][(inflight = EmptyBag /\ tokenKey # Null /\ ret'.op \in RequestOps /\ ~Handled') =>
          /\ sent' # <<>> => ret'.refreshCalls >= 1
          /\ CanRefreshNow =>
                \A i \in DOMAIN sent' :
                    ~IsRefreshGet(sent'[i]) => Bearer(tokenKey) \notin AuthValues(sent'[i])]_vars

\* C25: after every step, expiry and next-refresh belong to the token
\* held: both are null when no token is held; after setAccessToken they
\* are the exp and refresh of the new token's payload, or null when it
\* has none; and a response that changes the token stores the expiry and
\* next-refresh of the same jwt.
C25_SessionFieldsAsGroup ==
    [][/\ tokenKey' = Null => (tokenKeyExpires' = Null /\ tokenKeyNextRefresh' = Null)
       /\ ret'.op = "setAccessToken" =>
             <<tokenKeyExpires', tokenKeyNextRefresh'>>
                 = TokenFieldsAfterSet(tokenKey', Null, Null)
       /\ (Handled' /\ tokenKey' # tokenKey /\ tokenKey' # Null) =>
             /\ tokenKeyExpires' = Field(Field(ret'.resp.body, "jwt"), "expires")
             /\ tokenKeyNextRefresh' = Field(Field(ret'.resp.body, "jwt"), "refresh")]_vars

\* C26: after setAccessToken with a token whose payload carries exp (in
\* seconds, as the token format has it), expiry and next-refresh are that
\* exp and refresh as milliseconds, and a token whose exp lies after the
\* clock passes the not-expired test of refreshToken.
C26_ExpiryInMilliseconds ==
    (ret.op = "setAccessToken" /\ tokenKey \in {Str(TokA), Str(TokB)}) =>
        LET payload == DecodeToken(tokenKey.v).value
        IN  /\ tokenKeyExpires = Num(payload.exp.v * 1000)
            /\ payload.refresh # Undefined =>
                   tokenKeyNextRefresh = Num(payload.refresh.v * 1000)
            /\ payload.exp.v * 1000 > now =>
                   (tokenKeyExpires # Null /\ JsGt(tokenKeyExpires, Num(now)))

\* C27: after a header-mode signing the signed request carries an
\* X-Amz-Date header, the timestamp of the string to sign is its value,
\* and the date of the credential scope is the first 8 characters of it.
C27_TimestampIsDateHeader ==
    signedOut.done =>
        /\ HasHeader(signedOut.headers, "X-Amz-Date")
        /\ stringToSign(signedOut.request, signedOut.clock).datetime
              = GetHeader(signedOut.headers, "X-Amz-Date").v
        /\ getDate(signedOut.request, signedOut.clock)
              = substr(GetHeader(signedOut.headers, "X-Amz-Date").v, 8)

\* C28: a call me(accessToken) with a string token that dispatches sends
\* the _me request with "Bearer <accessToken>" as its only Authorization
\* value, whether a secret is configured or not and another token is
\* held or not, and leaves token, expiry and next-refresh as they were.
C28_MeWithCallerToken ==
    [][(me(Str(TokOpaque)) /\ ret'.val = "promise") =>
          /\ sent'[Len(sent')].path = getFullPath(<<"_me">>)
          /\ AuthValues(sent'[Len(sent')]) = {Bearer(Str(TokOpaque))}
          /\ UNCHANGED session]_vars

\* C29: a call of grantResourcePermission that dispatches sends the guest
\* marker "?" in the permission list exactly when the caller passed
\* allowGuestAccess = true with subject "*"; called with three arguments,
\* or three arguments and a callback, it sends the caller's permission
\* array as it was, which is then unchanged.
C29_GuestAccessOffByDefault ==
    [][\A c \in GrantCalls :
          (grantResourcePermission(c[1], c[2], c[3]) /\ ret'.val = "promise") =>
             LET body == sent'[Len(sent')].body
             IN  /\ (\E i \in DOMAIN body : body[i] = "?")
                       <=> (c[3] = Bool(TRUE) /\ c[1] = Str("*"))
                 /\ c[3] \in {Undefined, Function} => body = c[2].v]_vars

\* C30: when the response to newKeys has been handled, the secret is the
\* response's secretKey if the call succeeded with a non-blank one and
\* the secret held before otherwise, and token, expiry and next-refresh
\* are as before; every request signed with the secret key is signed
\* with the secret held when it is made.
C30_SecretRotatedByNewKeys ==
    [][/\ (Handled' /\ ret'.op = "newKeys") =>
             /\ secret' = IF ret'.val = "resolved"
                                /\ Field(ret'.resp.body, "secretKey") = Str("secret2")
                           THEN Str("secret2")
                           ELSE secret
             /\ UNCHANGED session
       /\ \A i \in DOMAIN sent' :
             sent'[i].signed => AuthValues(sent'[i]) = {Signature(accessKey, secret')}]_vars

\* a request has just been signed with the secret a newKeys response
\* brought, on a client constructed with another secret
C30_Witness ==
    /\ secret = Str("secret2")
    /\ ret.op = "types" /\ ~Handled
    /\ Len(sent) = 1 /\ sent[1].signed
    /\ AuthValues(sent[1]) = {Signature(accessKey, Str("secret2"))}

====
